---------------------------- MODULE Spec2Model ----------------------------
(***************************************************************************)
(* Factor Fund II model: the FactorFundModelEnhanced calculation engine    *)
(* (src/factor-fund-python-model-enhanced.py) and the request handler      *)
(* run_model that drives it (src/app.py).                                  *)
(*                                                                         *)
(* Numbers.  Every real quantity of the program (money in $M, rates,       *)
(* probabilities) is held as an integer number of thousandths (Scale):     *)
(* 50.0 is 50000, 0.02 is 20, 0.185 is 185.  Python ints (count, multiple, *)
(* fund_life, investment_period, Year) are held as they are.  The inputs   *)
(* are drawn from grids on which every product the program forms is a      *)
(* whole number of thousandths, so Mul is exact.  Quotients are held as    *)
(* exact fractions in lowest terms (Quot); a quotient by zero is a Python  *)
(* ZeroDivisionError for Python floats and inf/nan for numpy values.       *)
(***************************************************************************)
EXTENDS Integers, Sequences, FiniteSets, TLC

VARIABLES pc, data, model, category_returns, portfolio_returns, lp_returns, cash_flows,
          sensitivity, fig, error, response, calls, plt, buffer

vars == <<pc, data, model, category_returns, portfolio_returns, lp_returns, cash_flows,
          sensitivity, fig, error, response, calls, plt, buffer>>

(***************************************************************************)
(* Bounds of the model: the grids the request parameters are drawn from.   *)
(***************************************************************************)
MaxFundSizeSteps == 2
MaxFeeSteps == 1
MaxCarrySteps == 1
MaxFundLifeSteps == 3
MaxPeriodSteps == 1
MaxAllocSteps == 2
MaxCountSteps == 1
MaxCalls == 4

(***************************************************************************)
(* Arithmetic                                                              *)
(***************************************************************************)
Scale == 1000

Abs(x) == IF x < 0 THEN -x ELSE x

Sign(x) == IF x < 0 THEN -1 ELSE IF x = 0 THEN 0 ELSE 1

Max(a, b) == IF a >= b THEN a ELSE b

RECURSIVE GCD(_, _)
GCD(a, b) == IF b = 0 THEN a ELSE GCD(b, a % b)

\* a * b for two reals held in thousandths
Mul(a, b) == (a * b) \div Scale

\* n / d as an exact fraction in lowest terms, d # 0
Quot(n, d) ==
    LET g == GCD(Abs(n), Abs(d))
        s == Sign(d)
    IN  [num |-> s * (n \div g), den |-> s * (d \div g)]

\* numpy / pandas true division: x / 0 is inf, -inf or nan, never an error
NumpyDiv(n, d) == IF d = 0 THEN [num |-> Sign(n), den |-> 0] ELSE Quot(n, d)

RECURSIVE SumSeq(_)
SumSeq(s) == IF s = <<>> THEN 0 ELSE SumSeq(SubSeq(s, 1, Len(s) - 1)) + s[Len(s)]

\* pandas Series.cumsum
CumSum(s) == [i \in 1..Len(s) |-> SumSeq(SubSeq(s, 1, i))]

\* the outcome of a call: a returned value or a raised exception
Return(v) == [raised |-> FALSE, value |-> v]

Raise(exc, where) == [raised |-> TRUE, exc |-> exc, in |-> where]

None == [none |-> TRUE]

(***************************************************************************)
(* FactorFundModelEnhanced.__init__                                        *)
(***************************************************************************)
Categories == {"seed", "shared_safe", "series_a", "incubation", "recycled"}

OutcomeOrder == <<"home_run", "winners", "moderate", "return_capital", "write_off">>

DefaultInvestmentParams ==
    [seed        |-> [count |-> 10, avg_check |-> 1500, pre_money_val |-> 15000,
                      ownership |-> 100, allocation |-> 15000],
     shared_safe |-> [count |-> 6, avg_check |-> 2000, pre_money_val |-> 10000,
                      ownership |-> 200, allocation |-> 12000],
     series_a    |-> [count |-> 6, avg_check |-> 2000, pre_money_val |-> 40000,
                      ownership |-> 50, allocation |-> 12000],
     incubation  |-> [count |-> 0, allocation |-> 4000, target_moic |-> 3000],
     recycled    |-> [count |-> 3, avg_check |-> 670, allocation |-> 2000,
                      target_moic |-> 5000]]

PowerLawSeed ==
    [home_run       |-> [probability |-> 100, multiple |-> 50],
     winners        |-> [probability |-> 200, multiple |-> 10],
     moderate       |-> [probability |-> 300, multiple |-> 3],
     return_capital |-> [probability |-> 200, multiple |-> 1],
     write_off      |-> [probability |-> 200, multiple |-> 0]]

PowerLawSeriesA ==
    [home_run       |-> [probability |-> 100, multiple |-> 30],
     winners        |-> [probability |-> 200, multiple |-> 8],
     moderate       |-> [probability |-> 300, multiple |-> 3],
     return_capital |-> [probability |-> 200, multiple |-> 1],
     write_off      |-> [probability |-> 200, multiple |-> 0]]

\* total_management_fees = fund_size * management_fee_rate * fund_life
ManagementFees(fund_size, management_fee_rate, fund_life) ==
    Mul(fund_size, management_fee_rate) * fund_life

\* the object __init__(fund_size) leaves behind
NewModel(fund_size) ==
    LET management_fee_rate == 20
        fund_life == 10
        total_management_fees == ManagementFees(fund_size, management_fee_rate, fund_life)
        operating_expenses == 2000
        net_investable == fund_size - total_management_fees - operating_expenses
        recycling_amount == 7000
    IN  [fund_size             |-> fund_size,
         management_fee_rate   |-> management_fee_rate,
         carried_interest_rate |-> 200,
         fund_life             |-> fund_life,
         investment_period     |-> 4,
         total_management_fees |-> total_management_fees,
         operating_expenses    |-> operating_expenses,
         net_investable        |-> net_investable,
         recycling_amount      |-> recycling_amount,
         total_deployable      |-> net_investable + recycling_amount,
         investment_params     |-> DefaultInvestmentParams,
         power_law_seed        |-> PowerLawSeed,
         power_law_series_a    |-> PowerLawSeriesA]

(***************************************************************************)
(* calculate_equity_returns, calculate_revenue_share_returns               *)
(***************************************************************************)
calculate_equity_returns(m, investment_type) ==
    LET params == m.investment_params[investment_type]
        total_invested == params.allocation
        count == params.count
        distribution == IF investment_type = "seed"
                        THEN m.power_law_seed
                        ELSE m.power_law_series_a
        returns_by_outcome ==
            [outcome \in DOMAIN distribution |->
                LET specs == distribution[outcome]
                    capital == Mul(total_invested, specs.probability)
                IN  [companies |-> count * specs.probability,
                     capital   |-> capital,
                     return    |-> capital * specs.multiple,
                     multiple  |-> specs.multiple]]
        total_return ==
            SumSeq([i \in 1..Len(OutcomeOrder) |->
                        returns_by_outcome[OutcomeOrder[i]].return])
    IN  IF total_invested = 0
        THEN Raise("ZeroDivisionError", "calculate_equity_returns")
        ELSE Return([total_invested |-> total_invested,
                     total_return   |-> total_return,
                     moic           |-> Quot(total_return, total_invested),
                     breakdown      |-> returns_by_outcome])

calculate_revenue_share_returns(m) ==
    LET params == m.investment_params["shared_safe"]
        total_invested == params.allocation
        revenue_share_return == Mul(total_invested, 2500)
        equity_portion == Mul(total_invested, 400)
        equity_return == Mul(equity_portion, 1500)
        total_return == revenue_share_return + equity_return
        schedule == [year_1_2  |-> Mul(revenue_share_return, 200),
                     year_3_4  |-> Mul(revenue_share_return, 400),
                     year_5    |-> Mul(revenue_share_return, 400),
                     year_7_10 |-> equity_return]
    IN  IF total_invested = 0
        THEN Raise("ZeroDivisionError", "calculate_revenue_share_returns")
        ELSE Return([total_invested       |-> total_invested,
                     revenue_share_return |-> revenue_share_return,
                     equity_return        |-> equity_return,
                     total_return         |-> total_return,
                     moic                 |-> Quot(total_return, total_invested),
                     cash_flow_schedule   |-> schedule])

(***************************************************************************)
(* calculate_portfolio_returns                                             *)
(***************************************************************************)
\* the (cat_name, cat_key, calc_type) list the loop walks, in its order
CategoryList ==
    << <<"Seed", "seed", "equity">>,
       <<"Shared SAFE", "shared_safe", "revenue_share">>,
       <<"Series A", "series_a", "equity">>,
       <<"Incubation", "incubation", "fixed">>,
       <<"Recycled", "recycled", "fixed">> >>

\* invested / self.total_deployable * 100, on Python floats
PercentOfPortfolio(m, invested) == Quot(invested * 100, m.total_deployable)

\* the row appended for a category whose returns a calculator computed
ReturnsRow(m, cat_name, returns) ==
    IF returns.raised
    THEN returns
    ELSE IF m.total_deployable = 0
    THEN Raise("ZeroDivisionError", "calculate_portfolio_returns")
    ELSE Return([Category         |-> cat_name,
                 Invested         |-> returns.value.total_invested,
                 Gross_Return     |-> returns.value.total_return,
                 MOIC             |-> returns.value.moic,
                 Pct_of_Portfolio |->
                     PercentOfPortfolio(m, returns.value.total_invested)])

\* one pass of the loop body: the row appended for a category
CategoryRow(m, cat_name, cat_key, calc_type) ==
    IF calc_type = "fixed"
    THEN LET params == m.investment_params[cat_key]
         IN  IF m.total_deployable = 0
             THEN Raise("ZeroDivisionError", "calculate_portfolio_returns")
             ELSE Return([Category         |-> cat_name,
                          Invested         |-> params.allocation,
                          Gross_Return     |-> Mul(params.allocation, params.target_moic),
                          MOIC             |-> Quot(params.target_moic, Scale),
                          Pct_of_Portfolio |-> PercentOfPortfolio(m, params.allocation)])
    ELSE ReturnsRow(m, cat_name,
                    IF calc_type = "revenue_share"
                    THEN calculate_revenue_share_returns(m)
                    ELSE calculate_equity_returns(m, cat_key))

\* the residual added to the total row's gross return
Residual == 5000

\* the "Total Portfolio" row built from the category rows df
TotalRow(df) ==
    LET invested == SumSeq([i \in 1..Len(df) |-> df[i].Invested])
        gross == SumSeq([i \in 1..Len(df) |-> df[i].Gross_Return]) + Residual
    IN  [Category         |-> "Total Portfolio",
         Invested         |-> invested,
         Gross_Return     |-> gross,
         MOIC             |-> NumpyDiv(gross, invested),
         Pct_of_Portfolio |-> Quot(100, 1)]

WithTotalRow_first(df) == <<TotalRow(df)>> \o df

\* pd.concat([df, pd.DataFrame([total_row])], ignore_index=True)
WithTotalRow(df) == Append(df, TotalRow(df))

\* the loop's outcome from the outcome of each pass: the first exception
\* raised ends it, else the table is the rows plus the total row
PortfolioTable(rows) ==
    IF \E i \in 1..Len(rows) : rows[i].raised
    THEN rows[CHOOSE i \in 1..Len(rows) :
                 rows[i].raised /\ \A j \in 1..(i - 1) : ~rows[j].raised]
    ELSE Return(WithTotalRow([i \in 1..Len(rows) |-> rows[i].value]))

calculate_portfolio_returns(m) ==
    PortfolioTable([i \in 1..Len(CategoryList) |->
                       CategoryRow(m, CategoryList[i][1], CategoryList[i][2],
                                   CategoryList[i][3])])

(***************************************************************************)
(* calculate_cash_flows                                                    *)
(***************************************************************************)
\* equity_exits = [0, 0, 3, 8, 12, 20, 32, 40, 32, 75.5]
EquityExits == <<0, 0, 3000, 8000, 12000, 20000, 32000, 40000, 32000, 75500>>

\* the flat revenue-share distribution of rows 5..8
FlatRevenueShare == 1800

\* the carry rate written into calculate_cash_flows: the literal 0.20, not
\* self.carried_interest_rate
CashFlowCarryRate(m) == 200

CarryDue_unclamped(m, x) == Mul(x, CashFlowCarryRate(m))

\* lambda x: max(0, x * 0.20)
CarryDue(m, x) == Max(0, Mul(x, CashFlowCarryRate(m)))

\* Rows of the frame when the Equity Exits column is assigned.  The frame is
\* built with fund_life rows (none for fund_life <= 0); each scalar
\* .loc[k, "Revenue Share"] = ... for k = 0..4 appends row k when the frame
\* has no such label, while the slices .loc[0:3] and .loc[5:8] append nothing.
FrameRows(m) == Max(Max(m.fund_life, 0), 5)

\* the rows of the schedule, for a frame of n rows with Equity Exits assigned
CashFlowRows(m, n, rs_schedule) ==
    LET capital_calls == [i \in 1..n |-> IF i <= 4 /\ i <= m.fund_life
                                         THEN (-m.fund_size) \div 4 ELSE 0]
        revenue_share ==
            [i \in 1..n |->
                CASE i = 1 -> Mul(rs_schedule.year_1_2, 400)
                  [] i = 2 -> Mul(rs_schedule.year_1_2, 600)
                  [] i = 3 -> Mul(rs_schedule.year_3_4, 400)
                  [] i = 4 -> Mul(rs_schedule.year_3_4, 600)
                  [] i = 5 -> rs_schedule.year_5
                  [] i \in 6..9 -> FlatRevenueShare
                  [] OTHER -> 0]
        total_distribution == [i \in 1..n |-> revenue_share[i] + EquityExits[i]]
        cumulative == CumSum(total_distribution)
        gross_profit == [i \in 1..n |-> cumulative[i] - m.fund_size]
        carry_due == [i \in 1..n |-> CarryDue(m, gross_profit[i])]
    IN  [i \in 1..n |->
            [Year                    |-> i,
             Capital_Calls           |-> capital_calls[i],
             Revenue_Share           |-> revenue_share[i],
             Equity_Exits            |-> EquityExits[i],
             Total_Distribution      |-> total_distribution[i],
             Net_Cash_Flow           |-> capital_calls[i] + total_distribution[i],
             Cumulative_Distribution |-> cumulative[i],
             DPI                     |-> NumpyDiv(cumulative[i], m.fund_size),
             Gross_Profit            |-> gross_profit[i],
             Carry_Due               |-> carry_due[i],
             Net_to_LPs              |-> total_distribution[i]
                                         - (carry_due[i]
                                            - (IF i = 1 THEN 0 ELSE carry_due[i - 1]))]]

\* the schedule from the revenue-share returns; assigning the ten Equity
\* Exits to a frame of another length is a pandas ValueError
CashFlowsFrom(m, safe_returns) ==
    IF safe_returns.raised
    THEN safe_returns
    ELSE IF FrameRows(m) # Len(EquityExits)
    THEN Raise("ValueError", "calculate_cash_flows")
    ELSE Return(CashFlowRows(m, FrameRows(m),
                             safe_returns.value.cash_flow_schedule))

calculate_cash_flows(m) == CashFlowsFrom(m, calculate_revenue_share_returns(m))

(***************************************************************************)
(* calculate_lp_returns                                                    *)
(***************************************************************************)
NaN == [kind |-> "nan"]

\* irr = 0.185, the except branch
DefaultIRR == [kind |-> "rate", value |-> 185]

HasSignChange(values) ==
    /\ \E i \in 1..Len(values) : values[i] < 0
    /\ \E i \in 1..Len(values) : values[i] > 0

\* npf.irr: the rate at which the net present value of values is zero; nan
\* (not an exception) when the polynomial has no real positive root, which
\* for a series of equal capital calls followed by one terminal flow is the
\* case exactly when the series has no sign change
npf_irr(values) ==
    IF HasSignChange(values)
    THEN Return([kind |-> "npv_zero", values |-> values])
    ELSE Return(NaN)

WaterfallCarry_on_losses_too(m, gross_profit) ==
    Mul(gross_profit, m.carried_interest_rate)

\* the carry of the whole-fund waterfall
WaterfallCarry(m, gross_profit) ==
    IF gross_profit > 0 THEN Mul(gross_profit, m.carried_interest_rate) ELSE 0

\* the "Total Portfolio" row's Gross Return
TotalGrossReturn(portfolio) ==
    LET i == CHOOSE i \in 1..Len(portfolio) : portfolio[i].Category = "Total Portfolio"
    IN  portfolio[i].Gross_Return

\* lp_cash_flows as first built (lines 292-294): the last year's Net to LPs
LPCashFlows_last_year(cf) ==
    Append([i \in 1..Len(cf) |-> cf[i].Capital_Calls], cf[Len(cf)].Net_to_LPs)

\* capital calls followed by the sum of Net to LPs
LPCashFlows(cf) ==
    Append([i \in 1..Len(cf) |-> cf[i].Capital_Calls],
           SumSeq([i \in 1..Len(cf) |-> cf[i].Net_to_LPs]))

\* try: irr = npf.irr(...)  except: irr = 0.185
TryIRR(solved) == IF solved.raised THEN DefaultIRR ELSE solved.value

\* the returned dict, from the waterfall's terms and the irr
LPReturnsDict(m, gross_returns, gross_profit, carry, irr) ==
    [gross_returns         |-> gross_returns,
     gross_moic            |-> NumpyDiv(gross_returns, m.fund_size),
     gross_profit          |-> gross_profit,
     carry                 |-> carry,
     net_profit_to_lps     |-> gross_profit - carry,
     total_lp_distribution |-> m.fund_size + (gross_profit - carry),
     net_moic              |-> NumpyDiv(m.fund_size + (gross_profit - carry),
                                        m.fund_size),
     net_irr               |-> irr,
     management_fees       |-> m.total_management_fees,
     operating_expenses    |-> m.operating_expenses]

\* the body of calculate_lp_returns, cf being what calculate_cash_flows did
LPReturnsFrom(m, gross_returns, cf) ==
    IF cf.raised
    THEN cf
    ELSE Return(LPReturnsDict(m, gross_returns, gross_returns - m.fund_size,
                              WaterfallCarry(m, gross_returns - m.fund_size),
                              TryIRR(npf_irr(LPCashFlows(cf.value)))))

calculate_lp_returns(m, portfolio) ==
    LPReturnsFrom(m, TotalGrossReturn(portfolio), calculate_cash_flows(m))

(***************************************************************************)
(* sensitivity_analysis                                                    *)
(***************************************************************************)
ScenarioList ==
    << <<"Downside (-30%)", 700>>, <<"Base Case", 1000>>, <<"Upside (+30%)", 1300>> >>

\* (moic ** (1 / 10) - 1) * 100, kept as the expression it is; nan for a
\* negative or undefined moic
IrrEstimate(moic) ==
    IF moic.den = 0 \/ moic.num < 0
    THEN IF moic.den = 0 /\ moic.num > 0
         THEN [kind |-> "inf"]
         ELSE NaN
    ELSE [kind |-> "root", of |-> moic, root |-> 10, times |-> 100]

\* one scenario's row, from its gross and the net MOIC derived from it
ScenarioDict(m, scenario_name, gross, moic) ==
    [Scenario      |-> scenario_name,
     Gross_Returns |-> gross,
     Gross_MOIC    |-> NumpyDiv(gross, m.fund_size),
     Net_MOIC      |-> moic,
     Net_IRR_pct   |-> IrrEstimate(moic)]

\* net = self.fund_size + profit - carry; moic = net / self.fund_size
ScenarioNetMoic(m, profit) ==
    NumpyDiv(m.fund_size + profit - WaterfallCarry(m, profit), m.fund_size)

ScenarioGross_of_profit(base_case, multiplier) ==
    Mul(base_case.gross_profit, multiplier)

\* gross = base_case["gross_returns"] * multiplier
ScenarioGross(base_case, multiplier) == Mul(base_case.gross_returns, multiplier)

ScenarioRow(m, base_case, scenario_name, multiplier) ==
    ScenarioDict(m, scenario_name, ScenarioGross(base_case, multiplier),
                 ScenarioNetMoic(m, ScenarioGross(base_case, multiplier) - m.fund_size))

\* the loop over the scenarios, base_case being what calculate_lp_returns did
ScenariosFrom(m, base_case) ==
    IF base_case.raised
    THEN base_case
    ELSE Return([i \in 1..Len(ScenarioList) |->
                    ScenarioRow(m, base_case.value, ScenarioList[i][1],
                                ScenarioList[i][2])])

sensitivity_analysis(m, portfolio) ==
    ScenariosFrom(m, calculate_lp_returns(m, portfolio))

(***************************************************************************)
(* create_visualizations: the data the figure is drawn from                *)
(***************************************************************************)
\* the rows other than "Total Portfolio"
PortfolioData(portfolio) ==
    SelectSeq(portfolio, LAMBDA row : row.Category # "Total Portfolio")

Figure(m, portfolio_data, cf, seed_returns, lp) ==
    [allocation |-> [i \in 1..Len(portfolio_data) |-> portfolio_data[i].Invested],
     moic       |-> [i \in 1..Len(portfolio_data) |-> portfolio_data[i].MOIC],
     timeline   |-> [i \in 1..Len(cf) |-> <<cf[i].Revenue_Share, cf[i].Equity_Exits>>],
     dpi        |-> [i \in 1..Len(cf) |-> cf[i].DPI],
     seed       |-> [i \in 1..Len(OutcomeOrder) |->
                        seed_returns.breakdown[OutcomeOrder[i]].return],
     metrics    |-> [fund_size             |-> m.fund_size,
                     net_investable        |-> m.net_investable,
                     total_deployed        |-> m.total_deployable,
                     gross_moic            |-> lp.gross_moic,
                     net_moic              |-> lp.net_moic,
                     net_irr               |-> lp.net_irr,
                     total_lp_distribution |-> lp.total_lp_distribution,
                     carry                 |-> lp.carry]]

\* Axes.pie raises ValueError("Wedge sizes 'x' must be non negative values")
PieRejects(portfolio_data) ==
    \E i \in 1..Len(portfolio_data) : portfolio_data[i].Invested < 0

\* the body of create_visualizations, from what each calculation it calls did
FigureFrom(m, portfolio, cf, seed_returns, lp) ==
    IF portfolio.raised THEN portfolio
    ELSE IF cf.raised THEN cf
    ELSE IF PieRejects(PortfolioData(portfolio.value))
    THEN Raise("ValueError", "create_visualizations")
    ELSE IF seed_returns.raised THEN seed_returns
    ELSE IF lp.raised THEN lp
    ELSE Return(Figure(m, PortfolioData(portfolio.value), cf.value,
                       seed_returns.value, lp.value))

\* calculate_lp_returns(portfolio), reached only with a portfolio table
LPReturnsOf(m, portfolio) ==
    IF portfolio.raised THEN portfolio ELSE calculate_lp_returns(m, portfolio.value)

create_visualizations(m) ==
    FigureFrom(m, calculate_portfolio_returns(m), calculate_cash_flows(m),
               calculate_equity_returns(m, "seed"),
               LPReturnsOf(m, calculate_portfolio_returns(m)))

(***************************************************************************)
(* matplotlib.pyplot, the state the module keeps for the whole process:    *)
(* rcParams (of the keys create_visualizations sets, axes.grid is the one  *)
(* whose default differs), and the registry of open figures, the last one  *)
(* being the current figure plt.subplot and plt.tight_layout act on.       *)
(* A figure holds its six axes, each with the rcParams it was created      *)
(* under (grid) and what was drawn in it (artists).                        *)
(***************************************************************************)
\* the six panels in the order create_visualizations draws them, by the
\* field of Figure each draws
PanelOrder == <<"allocation", "moic", "timeline", "dpi", "seed", "metrics">>

\* pyplot as imported
NoFigures == [axes_grid |-> FALSE, figs |-> <<>>, next |-> 1]

\* plt.style.use("default")
plt_style_use(p) == [p EXCEPT !.axes_grid = FALSE]

\* plt.rcParams.update({..., "axes.grid": True, ...})
plt_rcParams_update(p) == [p EXCEPT !.axes_grid = TRUE]

\* plt.figure(figsize=(20, 12)): a new figure, made the current one
plt_figure(p) ==
    [p EXCEPT !.figs = Append(@, [id    |-> p.next,
                                  axes  |-> [k \in 1..Len(PanelOrder) |-> None],
                                  tight |-> FALSE]),
              !.next = @ + 1]

\* plt.gcf(): the current figure, one being made if none is open
WithCurrentFigure(p) == IF p.figs = <<>> THEN plt_figure(p) ELSE p

CurrentFigure(p) == p.figs[Len(p.figs)].id

\* the axes at position k of the current figure of q, made if not there
SubplotOn(q, k) ==
    IF q.figs[Len(q.figs)].axes[k] # None
    THEN q
    ELSE [q EXCEPT !.figs[Len(q.figs)].axes[k] =
                        [grid |-> q.axes_grid, artists |-> <<>>]]

\* plt.subplot(2, 3, k)
plt_subplot(p, k) == SubplotOn(WithCurrentFigure(p), k)

\* the drawing calls on an axes object (ax.pie, ax.bar, ax.plot, ax.text):
\* they reach the figure the axes belongs to, open or not
ax_draw(p, ax, artist) ==
    [p EXCEPT !.figs =
        [i \in 1..Len(p.figs) |->
            IF p.figs[i].id = ax.fig
            THEN [p.figs[i] EXCEPT !.axes[ax.at].artists = Append(@, artist)]
            ELSE p.figs[i]]]

\* plt.tight_layout()
TightLayoutOn(q) == [q EXCEPT !.figs[Len(q.figs)].tight = TRUE]

plt_tight_layout(p) == TightLayoutOn(WithCurrentFigure(p))

\* the panels whose axes show no frame, ticks or grid: the pie of panel 1
\* and the text of panel 6, where ax6.axis("off") is called
FramelessPanels == {1, 6}

\* an axes as the picture shows it
Rendered(k, ax) ==
    IF ax = None \/ k \notin FramelessPanels
    THEN ax
    ELSE [artists |-> ax.artists]

\* fig.savefig(buffer, format='png', ...): the picture of the figure
savefig(p, id) ==
    LET i == CHOOSE i \in 1..Len(p.figs) : p.figs[i].id = id
    IN  [axes  |-> [k \in 1..Len(PanelOrder) |-> Rendered(k, p.figs[i].axes[k])],
         tight |-> p.figs[i].tight]

\* plt.close(fig)
plt_close(p, id) == [p EXCEPT !.figs = SelectSeq(@, LAMBDA f : f.id # id)]

\* ax = plt.subplot(2, 3, k) and the drawing of artist in ax
DrawPanel(p, k, artist) ==
    ax_draw(plt_subplot(p, k),
            [fig |-> CurrentFigure(plt_subplot(p, k)), at |-> k], artist)

RECURSIVE DrawPanels(_, _, _)
\* panels k.. of create_visualizations, run one after the other
DrawPanels(p, figure, k) ==
    IF k > Len(PanelOrder)
    THEN p
    ELSE DrawPanels(DrawPanel(p, k, figure[PanelOrder[k]]), figure, k + 1)

\* pyplot after the statements before the first panel
FigureOpened(p) == plt_figure(plt_rcParams_update(plt_style_use(p)))

\* pyplot after create_visualizations ran from p with outcome r, no other
\* thread running: a failing calculation leaves pyplot alone, a rejected
\* pie leaves the figure open with its first axes
Drawn(p, r) ==
    IF r.raised
    THEN IF r.in = "create_visualizations"
         THEN plt_subplot(FigureOpened(p), 1)
         ELSE p
    ELSE plt_tight_layout(DrawPanels(FigureOpened(p), r.value, 1))

(***************************************************************************)
(* The requests run_model is sent: the JSON body, each key absent (<<>>)   *)
(* or present with a value (<<v>>).                                        *)
(***************************************************************************)
Opt(S) == {<<>>} \cup {<<v>> : v \in S}

\* fund sizes below, at and above nothing; the positive ones exceed what
\* the default allocations return (254.1), so that funds at a loss are run
FundSizes == {300000 * (k - 1) : k \in 0..MaxFundSizeSteps}

FeeRates == {10 * k : k \in 1..MaxFeeSteps}

CarryRates == {200 * k : k \in 0..MaxCarrySteps}

FundLives == {4 * k - 1 : k \in 1..MaxFundLifeSteps}

InvestmentPeriods == {4 + k : k \in 1..MaxPeriodSteps}

Allocations == {4000 * (k - 1) : k \in 0..MaxAllocSteps}

Counts == {8 * k : k \in 1..MaxCountSteps}

\* a per-category override: a dict holding any of allocation and count
ParamsDict(a, n) ==
    [k \in (IF a = <<>> THEN {} ELSE {"allocation"})
           \cup (IF n = <<>> THEN {} ELSE {"count"}) |->
        IF k = "allocation" THEN a[1] ELSE n[1]]

ParamsDicts == {ParamsDict(a, n) : a \in Opt(Allocations), n \in Opt(Counts)}

\* the categories a request may name: the five known ones and an unknown one
RequestCategories == Categories \cup {"growth"}

InvestmentParamsOverrides == {c :> p : c \in RequestCategories, p \in ParamsDicts}

Requests ==
    [fund_size             : Opt(FundSizes),
     management_fee_rate   : Opt(FeeRates),
     carried_interest_rate : Opt(CarryRates),
     fund_life             : Opt(FundLives),
     investment_period     : Opt(InvestmentPeriods),
     investment_params     : Opt(InvestmentParamsOverrides)]

(***************************************************************************)
(* run_model: the configuration steps                                      *)
(***************************************************************************)
\* data.get('fund_size', 50.0)
RequestedFundSize(d) == IF d.fund_size = <<>> THEN 50000 ELSE d.fund_size[1]

\* the four "if key in data: model.key = ..." assignments
OverrideFundParameters(m, d) ==
    [m EXCEPT
        !.management_fee_rate   = IF d.management_fee_rate = <<>>
                                  THEN @ ELSE d.management_fee_rate[1],
        !.carried_interest_rate = IF d.carried_interest_rate = <<>>
                                  THEN @ ELSE d.carried_interest_rate[1],
        !.fund_life             = IF d.fund_life = <<>>
                                  THEN @ ELSE d.fund_life[1],
        !.investment_period     = IF d.investment_period = <<>>
                                  THEN @ ELSE d.investment_period[1]]

DictUpdate_replace(old, new) == new

\* dict.update: the keys of new take new's values, the others keep old's
DictUpdate(old, new) ==
    [k \in DOMAIN old \cup DOMAIN new |-> IF k \in DOMAIN new THEN new[k] ELSE old[k]]

\* the loop over data['investment_params'].items()
UpdateInvestmentParams(m, d) ==
    IF d.investment_params = <<>>
    THEN m
    ELSE LET overrides == d.investment_params[1]
         IN  [m EXCEPT !.investment_params =
                [category \in DOMAIN m.investment_params |->
                    IF category \in DOMAIN overrides
                    THEN DictUpdate(m.investment_params[category], overrides[category])
                    ELSE m.investment_params[category]]]

RecalculateDerived_fees_kept(m) ==
    LET net_investable == m.fund_size - m.total_management_fees - m.operating_expenses
    IN  [m EXCEPT !.net_investable = net_investable,
                  !.total_deployable = net_investable + m.recycling_amount]

\* "Recalculate derived values after parameter updates"
RecalculateDerived(m) ==
    LET total_management_fees ==
            ManagementFees(m.fund_size, m.management_fee_rate, m.fund_life)
        net_investable == m.fund_size - total_management_fees - m.operating_expenses
    IN  [m EXCEPT !.total_management_fees = total_management_fees,
                  !.net_investable = net_investable,
                  !.total_deployable = net_investable + m.recycling_amount]

(***************************************************************************)
(* run_model as a process: pc names the statement about to run.            *)
(***************************************************************************)
\* the calculation methods of FactorFundModelEnhanced
Methods == {"calculate_equity_returns", "calculate_revenue_share_returns",
            "calculate_portfolio_returns", "calculate_cash_flows",
            "calculate_lp_returns", "sensitivity_analysis"}

\* how often a caller holding the object has called each method
NoCalls == [f \in Methods |-> 0]

Init ==
    /\ pc = "get_json"
    /\ data = None
    /\ model = None
    /\ portfolio_returns = None
    /\ lp_returns = None
    /\ cash_flows = None
    /\ sensitivity = None
    /\ fig = None
    /\ error = None
    /\ response = None
    /\ category_returns = None
    /\ calls = NoCalls
    /\ plt = NoFigures
    /\ buffer = None

\* data = request.get_json()
GetJson ==
    /\ pc = "get_json"
    /\ data' \in Requests
    /\ pc' = "construct"
    /\ UNCHANGED <<model, portfolio_returns, lp_returns, cash_flows, sensitivity,
                   fig, error, response, calls, category_returns, plt, buffer>>

\* model = FactorFundModelEnhanced(fund_size=fund_size)
Construct ==
    /\ pc = "construct"
    /\ model' = NewModel(RequestedFundSize(data))
    /\ pc' = "override"
    /\ UNCHANGED <<data, portfolio_returns, lp_returns, cash_flows, sensitivity,
                   fig, error, response, calls, category_returns, plt, buffer>>

Override ==
    /\ pc = "override"
    /\ model' = OverrideFundParameters(model, data)
    /\ pc' = "update_params"
    /\ UNCHANGED <<data, portfolio_returns, lp_returns, cash_flows, sensitivity,
                   fig, error, response, calls, category_returns, plt, buffer>>

UpdateParams ==
    /\ pc = "update_params"
    /\ model' = UpdateInvestmentParams(model, data)
    /\ pc' = "recalculate"
    /\ UNCHANGED <<data, portfolio_returns, lp_returns, cash_flows, sensitivity,
                   fig, error, response, calls, category_returns, plt, buffer>>

Recalculate ==
    /\ pc = "recalculate"
    /\ model' = RecalculateDerived(model)
    /\ pc' = "portfolio"
    /\ UNCHANGED <<data, portfolio_returns, lp_returns, cash_flows, sensitivity,
                   fig, error, response, calls, category_returns, plt, buffer>>

\* portfolio_returns = model.calculate_portfolio_returns()
CalcPortfolioReturns ==
    /\ pc = "portfolio"
    /\ \E r \in {calculate_portfolio_returns(model)} :
           IF r.raised
           THEN error' = r /\ pc' = "except" /\ UNCHANGED portfolio_returns
           ELSE portfolio_returns' = r.value /\ pc' = "lp" /\ UNCHANGED error
    /\ UNCHANGED <<data, model, lp_returns, cash_flows, sensitivity, fig,
                   response, calls, category_returns, plt, buffer>>

\* lp_returns = model.calculate_lp_returns(portfolio_returns)
CalcLPReturns ==
    /\ pc = "lp"
    /\ \E r \in {calculate_lp_returns(model, portfolio_returns)} :
           IF r.raised
           THEN error' = r /\ pc' = "except" /\ UNCHANGED lp_returns
           ELSE lp_returns' = r.value /\ pc' = "cash_flows" /\ UNCHANGED error
    /\ UNCHANGED <<data, model, portfolio_returns, cash_flows, sensitivity, fig,
                   response, calls, category_returns, plt, buffer>>

\* cash_flows = model.calculate_cash_flows()
CalcCashFlows ==
    /\ pc = "cash_flows"
    /\ \E r \in {calculate_cash_flows(model)} :
           IF r.raised
           THEN error' = r /\ pc' = "except" /\ UNCHANGED cash_flows
           ELSE cash_flows' = r.value /\ pc' = "sensitivity" /\ UNCHANGED error
    /\ UNCHANGED <<data, model, portfolio_returns, lp_returns, sensitivity, fig,
                   response, calls, category_returns, plt, buffer>>

\* sensitivity = model.sensitivity_analysis(portfolio_returns)
CalcSensitivity ==
    /\ pc = "sensitivity"
    /\ \E r \in {sensitivity_analysis(model, portfolio_returns)} :
           IF r.raised
           THEN error' = r /\ pc' = "except" /\ UNCHANGED sensitivity
           ELSE sensitivity' = r.value /\ pc' = "visualize" /\ UNCHANGED error
    /\ UNCHANGED <<data, model, portfolio_returns, lp_returns, cash_flows, fig,
                   response, calls, category_returns, plt, buffer>>

\* the body of the response
ResponseData(m, pr, lp, cf, sens, image) ==
    [status |-> 200,
     fund_overview |-> [fund_size          |-> m.fund_size,
                        management_fees    |-> m.total_management_fees,
                        operating_expenses |-> m.operating_expenses,
                        net_investable     |-> m.net_investable,
                        recycling_amount   |-> m.recycling_amount,
                        total_deployable   |-> m.total_deployable],
     portfolio_returns    |-> pr,
     lp_returns           |-> lp,
     cash_flows           |-> cf,
     sensitivity_analysis |-> sens,
     visualization        |-> image,
     model_parameters |-> [management_fee_rate   |-> m.management_fee_rate,
                           carried_interest_rate |-> m.carried_interest_rate,
                           fund_life             |-> m.fund_life,
                           investment_period     |-> m.investment_period]]

\* fig = model.create_visualizations(): the figure made is the next one of
\* pyplot's registry
Visualize ==
    /\ pc = "visualize"
    /\ \E r \in {create_visualizations(model)} :
           /\ plt' = Drawn(plt, r)
           /\ IF r.raised
              THEN error' = r /\ pc' = "except" /\ UNCHANGED fig
              ELSE fig' = plt.next /\ pc' = "respond" /\ UNCHANGED error
    /\ UNCHANGED <<data, model, portfolio_returns, lp_returns, cash_flows,
                   sensitivity, response, calls, category_returns, buffer>>

\* fig.savefig(buffer, ...); plt.close(fig); return jsonify(response_data)
Respond ==
    /\ pc = "respond"
    /\ buffer' = savefig(plt, fig)
    /\ plt' = plt_close(plt, fig)
    /\ response' = ResponseData(model, portfolio_returns, lp_returns, cash_flows,
                                sensitivity, savefig(plt, fig))
    /\ pc' = "done"
    /\ UNCHANGED <<data, model, portfolio_returns, lp_returns, cash_flows,
                   sensitivity, fig, error, calls, category_returns>>

\* except Exception as e: return jsonify({'error': str(e)}), 400
HandleException ==
    /\ pc = "except"
    /\ response' = [status |-> 400, error |-> error.exc]
    /\ pc' = "done"
    /\ UNCHANGED <<data, model, portfolio_returns, lp_returns, cash_flows,
                   sensitivity, fig, error, calls, category_returns, plt, buffer>>

Next ==
    \/ GetJson
    \/ Construct
    \/ Override
    \/ UpdateParams
    \/ Recalculate
    \/ CalcPortfolioReturns
    \/ CalcLPReturns
    \/ CalcCashFlows
    \/ CalcSensitivity
    \/ Visualize
    \/ Respond
    \/ HandleException

Spec == Init /\ [][Next]_vars

(***************************************************************************)
(* A caller holding a configured object and calling its calculation        *)
(* methods in any order (the __main__ block, export_to_excel, a test): an  *)
(* exception goes to the caller, who may call again.                       *)
(***************************************************************************)
\* the object run_model's configuration statements build for request d
ConfiguredModel(d) ==
    RecalculateDerived(
        UpdateInvestmentParams(
            OverrideFundParameters(NewModel(RequestedFundSize(d)), d), d))

\* the configurations the caller holds: fund size, carry rate and fund life
\* as requested, the rest as constructed
CallerRequests ==
    {d \in Requests : /\ d.management_fee_rate = <<>>
                      /\ d.investment_period = <<>>
                      /\ d.investment_params = <<>>}

InitAPI ==
    /\ pc = "caller"
    /\ data \in CallerRequests
    /\ model = ConfiguredModel(data)
    /\ category_returns = None
    /\ portfolio_returns = None
    /\ lp_returns = None
    /\ cash_flows = None
    /\ sensitivity = None
    /\ fig = None
    /\ error = None
    /\ response = None
    /\ calls = NoCalls
    /\ plt = NoFigures
    /\ buffer = None

TotalCalls ==
    calls["calculate_equity_returns"] + calls["calculate_revenue_share_returns"]
    + calls["calculate_portfolio_returns"] + calls["calculate_cash_flows"]
    + calls["calculate_lp_returns"] + calls["sensitivity_analysis"]

\* the caller may call method now; the call is counted
Calling(method) ==
    /\ pc = "caller"
    /\ TotalCalls < MaxCalls
    /\ calls' = [calls EXCEPT ![method] = @ + 1]
    /\ pc' = pc

CallEquityReturns ==
    /\ Calling("calculate_equity_returns")
    /\ \E investment_type \in {"seed", "series_a"} :
         \E r \in {calculate_equity_returns(model, investment_type)} :
           IF r.raised
           THEN error' = r /\ UNCHANGED category_returns
           ELSE category_returns' = r.value /\ UNCHANGED error
    /\ UNCHANGED <<data, model, portfolio_returns, lp_returns, cash_flows,
                   sensitivity, fig, response, plt, buffer>>

CallRevenueShareReturns ==
    /\ Calling("calculate_revenue_share_returns")
    /\ \E r \in {calculate_revenue_share_returns(model)} :
           IF r.raised
           THEN error' = r /\ UNCHANGED category_returns
           ELSE category_returns' = r.value /\ UNCHANGED error
    /\ UNCHANGED <<data, model, portfolio_returns, lp_returns, cash_flows,
                   sensitivity, fig, response, plt, buffer>>

CallPortfolioReturns ==
    /\ Calling("calculate_portfolio_returns")
    /\ \E r \in {calculate_portfolio_returns(model)} :
           IF r.raised
           THEN error' = r /\ UNCHANGED portfolio_returns
           ELSE portfolio_returns' = r.value /\ UNCHANGED error
    /\ UNCHANGED <<data, model, category_returns, lp_returns, cash_flows, sensitivity,
                   fig, response, plt, buffer>>

CallCashFlows ==
    /\ Calling("calculate_cash_flows")
    /\ \E r \in {calculate_cash_flows(model)} :
           IF r.raised
           THEN error' = r /\ UNCHANGED cash_flows
           ELSE cash_flows' = r.value /\ UNCHANGED error
    /\ UNCHANGED <<data, model, category_returns, portfolio_returns, lp_returns,
                   sensitivity, fig, response, plt, buffer>>

CallLPReturns_caching ==
    /\ Calling("calculate_lp_returns")
    /\ portfolio_returns # None
    /\ \E r \in {calculate_lp_returns(model, portfolio_returns)} :
           IF r.raised
           THEN error' = r /\ UNCHANGED <<lp_returns, model>>
           ELSE /\ lp_returns' = r.value
                /\ model' = [model EXCEPT !.fund_size = r.value.total_lp_distribution]
                /\ UNCHANGED error
    /\ UNCHANGED <<data, category_returns, portfolio_returns, cash_flows, sensitivity,
                   fig, response, plt, buffer>>

\* the caller passes the portfolio table it holds
CallLPReturns ==
    /\ Calling("calculate_lp_returns")
    /\ portfolio_returns # None
    /\ \E r \in {calculate_lp_returns(model, portfolio_returns)} :
           IF r.raised
           THEN error' = r /\ UNCHANGED lp_returns
           ELSE lp_returns' = r.value /\ UNCHANGED error
    /\ UNCHANGED <<data, model, category_returns, portfolio_returns, cash_flows,
                   sensitivity, fig, response, plt, buffer>>

CallSensitivity ==
    /\ Calling("sensitivity_analysis")
    /\ portfolio_returns # None
    /\ \E r \in {sensitivity_analysis(model, portfolio_returns)} :
           IF r.raised
           THEN error' = r /\ UNCHANGED sensitivity
           ELSE sensitivity' = r.value /\ UNCHANGED error
    /\ UNCHANGED <<data, model, category_returns, portfolio_returns, lp_returns,
                   cash_flows, fig, response, plt, buffer>>

NextAPI ==
    \/ CallEquityReturns
    \/ CallRevenueShareReturns
    \/ CallPortfolioReturns
    \/ CallCashFlows
    \/ CallLPReturns
    \/ CallSensitivity

SpecAPI == InitAPI /\ [][NextAPI]_vars

(***************************************************************************)
(* Two requests served at once, each by a thread of the server running     *)
(* run_model: the locals of run_model are per thread (every variable but   *)
(* plt is a function of the thread), pyplot's state is the process's.      *)
(* Threads switch between statements; the statements that touch only       *)
(* locals are taken together.                                              *)
(***************************************************************************)
Threads == {1, 2}

\* the requests sent: the defaults, a larger fund, and a negative seed
\* allocation, which the pie chart rejects
ConcurrentRequests ==
    {d \in Requests :
        /\ d.management_fee_rate = <<>>
        /\ d.carried_interest_rate = <<>>
        /\ d.fund_life = <<>>
        /\ d.investment_period = <<>>
        /\ d.fund_size \in {<<>>, <<300000>>}
        /\ d.investment_params \in {<<>>, <<"seed" :> ParamsDict(<<-4000>>, <<>>)>>}
        /\ d.fund_size = <<>> \/ d.investment_params = <<>>}

\* the pc values of the six panels
PanelPc == <<"panel_1", "panel_2", "panel_3", "panel_4", "panel_5", "panel_6">>

InitConcurrent ==
    /\ pc = [t \in Threads |-> "construct"]
    /\ data \in [Threads -> ConcurrentRequests]
    /\ model = [t \in Threads |-> None]
    /\ portfolio_returns = [t \in Threads |-> None]
    /\ lp_returns = [t \in Threads |-> None]
    /\ cash_flows = [t \in Threads |-> None]
    /\ sensitivity = [t \in Threads |-> None]
    /\ fig = [t \in Threads |-> None]
    /\ error = [t \in Threads |-> None]
    /\ response = [t \in Threads |-> None]
    /\ buffer = [t \in Threads |-> None]
    /\ category_returns = None
    /\ calls = NoCalls
    /\ plt = NoFigures

\* thread t goes to the except clause with the exception of r
Raises(t, r) ==
    /\ error' = [error EXCEPT ![t] = r]
    /\ pc' = [pc EXCEPT ![t] = "except"]

Goes(t, to) == pc' = [pc EXCEPT ![t] = to] /\ UNCHANGED error

\* lines 30-54: the model built and configured
T_Configure(t) ==
    /\ pc[t] = "construct"
    /\ model' = [model EXCEPT ![t] = ConfiguredModel(data[t])]
    /\ Goes(t, "portfolio")
    /\ UNCHANGED <<data, portfolio_returns, lp_returns, cash_flows, sensitivity,
                   fig, response, buffer, category_returns, calls, plt>>

T_CalcPortfolioReturns(t) ==
    /\ pc[t] = "portfolio"
    /\ \E r \in {calculate_portfolio_returns(model[t])} :
           IF r.raised
           THEN Raises(t, r) /\ UNCHANGED portfolio_returns
           ELSE /\ portfolio_returns' = [portfolio_returns EXCEPT ![t] = r.value]
                /\ Goes(t, "lp")
    /\ UNCHANGED <<data, model, lp_returns, cash_flows, sensitivity,
                   fig, response, buffer, category_returns, calls, plt>>

T_CalcLPReturns(t) ==
    /\ pc[t] = "lp"
    /\ \E r \in {calculate_lp_returns(model[t], portfolio_returns[t])} :
           IF r.raised
           THEN Raises(t, r) /\ UNCHANGED lp_returns
           ELSE /\ lp_returns' = [lp_returns EXCEPT ![t] = r.value]
                /\ Goes(t, "cash_flows")
    /\ UNCHANGED <<data, model, portfolio_returns, cash_flows, sensitivity,
                   fig, response, buffer, category_returns, calls, plt>>

T_CalcCashFlows(t) ==
    /\ pc[t] = "cash_flows"
    /\ \E r \in {calculate_cash_flows(model[t])} :
           IF r.raised
           THEN Raises(t, r) /\ UNCHANGED cash_flows
           ELSE /\ cash_flows' = [cash_flows EXCEPT ![t] = r.value]
                /\ Goes(t, "sensitivity")
    /\ UNCHANGED <<data, model, portfolio_returns, lp_returns, sensitivity,
                   fig, response, buffer, category_returns, calls, plt>>

T_CalcSensitivity(t) ==
    /\ pc[t] = "sensitivity"
    /\ \E r \in {sensitivity_analysis(model[t], portfolio_returns[t])} :
           IF r.raised
           THEN Raises(t, r) /\ UNCHANGED sensitivity
           ELSE /\ sensitivity' = [sensitivity EXCEPT ![t] = r.value]
                /\ Goes(t, "viz_calc")
    /\ UNCHANGED <<data, model, portfolio_returns, lp_returns, cash_flows,
                   fig, response, buffer, category_returns, calls, plt>>

\* create_visualizations, lines 316-317: its own portfolio and cash flows
T_VizCalculations(t) ==
    /\ pc[t] = "viz_calc"
    /\ \E r \in {create_visualizations(model[t])} :
           IF r.raised /\ r.in # "create_visualizations"
           THEN Raises(t, r)
           ELSE Goes(t, "viz_style")
    /\ UNCHANGED <<data, model, portfolio_returns, lp_returns, cash_flows,
                   sensitivity, fig, response, buffer, category_returns, calls, plt>>

\* line 320
T_StyleUse(t) ==
    /\ pc[t] = "viz_style"
    /\ plt' = plt_style_use(plt)
    /\ Goes(t, "viz_rc")
    /\ UNCHANGED <<data, model, portfolio_returns, lp_returns, cash_flows,
                   sensitivity, fig, response, buffer, category_returns, calls>>

\* lines 321-330
T_RcParamsUpdate(t) ==
    /\ pc[t] = "viz_rc"
    /\ plt' = plt_rcParams_update(plt)
    /\ Goes(t, "viz_figure")
    /\ UNCHANGED <<data, model, portfolio_returns, lp_returns, cash_flows,
                   sensitivity, fig, response, buffer, category_returns, calls>>

\* line 331
T_Figure(t) ==
    /\ pc[t] = "viz_figure"
    /\ plt' = plt_figure(plt)
    /\ fig' = [fig EXCEPT ![t] = plt.next]
    /\ Goes(t, PanelPc[1])
    /\ UNCHANGED <<data, model, portfolio_returns, lp_returns, cash_flows,
                   sensitivity, response, buffer, category_returns, calls>>

\* one panel: ax = plt.subplot(2, 3, k) and the drawing in ax of this
\* thread's data; the pie of panel 1 may reject them
T_Panel(t) ==
    /\ \E k \in 1..Len(PanelPc) :
         /\ pc[t] = PanelPc[k]
         /\ \E r \in {create_visualizations(model[t])} :
              IF r.raised
              THEN plt' = plt_subplot(plt, k) /\ Raises(t, r)
              ELSE /\ plt' = DrawPanel(plt, k, r.value[PanelOrder[k]])
                   /\ Goes(t, IF k < Len(PanelPc) THEN PanelPc[k + 1] ELSE "viz_tight")
    /\ UNCHANGED <<data, model, portfolio_returns, lp_returns, cash_flows,
                   sensitivity, fig, response, buffer, category_returns, calls>>

\* line 451
T_TightLayout(t) ==
    /\ pc[t] = "viz_tight"
    /\ plt' = plt_tight_layout(plt)
    /\ Goes(t, "save")
    /\ UNCHANGED <<data, model, portfolio_returns, lp_returns, cash_flows,
                   sensitivity, fig, response, buffer, category_returns, calls>>

\* app.py lines 66-69
T_Savefig(t) ==
    /\ pc[t] = "save"
    /\ buffer' = [buffer EXCEPT ![t] = savefig(plt, fig[t])]
    /\ Goes(t, "close")
    /\ UNCHANGED <<data, model, portfolio_returns, lp_returns, cash_flows,
                   sensitivity, fig, response, category_returns, calls, plt>>

\* app.py line 70
T_Close(t) ==
    /\ pc[t] = "close"
    /\ plt' = plt_close(plt, fig[t])
    /\ Goes(t, "respond")
    /\ UNCHANGED <<data, model, portfolio_returns, lp_returns, cash_flows,
                   sensitivity, fig, response, buffer, category_returns, calls>>

\* app.py lines 72-95
T_Respond(t) ==
    /\ pc[t] = "respond"
    /\ response' = [response EXCEPT ![t] =
                        ResponseData(model[t], portfolio_returns[t], lp_returns[t],
                                     cash_flows[t], sensitivity[t], buffer[t])]
    /\ Goes(t, "done")
    /\ UNCHANGED <<data, model, portfolio_returns, lp_returns, cash_flows,
                   sensitivity, fig, buffer, category_returns, calls, plt>>

\* app.py lines 97-98
T_HandleException(t) ==
    /\ pc[t] = "except"
    /\ response' = [response EXCEPT ![t] = [status |-> 400, error |-> error[t].exc]]
    /\ Goes(t, "done")
    /\ UNCHANGED <<data, model, portfolio_returns, lp_returns, cash_flows,
                   sensitivity, fig, buffer, category_returns, calls, plt>>

NextConcurrent ==
    \E t \in Threads :
        \/ T_Configure(t)
        \/ T_CalcPortfolioReturns(t)
        \/ T_CalcLPReturns(t)
        \/ T_CalcCashFlows(t)
        \/ T_CalcSensitivity(t)
        \/ T_VizCalculations(t)
        \/ T_StyleUse(t)
        \/ T_RcParamsUpdate(t)
        \/ T_Figure(t)
        \/ T_Panel(t)
        \/ T_TightLayout(t)
        \/ T_Savefig(t)
        \/ T_Close(t)
        \/ T_Respond(t)
        \/ T_HandleException(t)

SpecConcurrent == InitConcurrent /\ [][NextConcurrent]_vars

(***************************************************************************)
(* Properties of run_model's calculations                                  *)
(***************************************************************************)
Returned(x) == x # None

\* the exception caught came out of the named method
RaisedIn(where) == error # None /\ error.in = where

Configured == pc \notin {"get_json", "construct", "override", "update_params",
                         "recalculate"}

\* C1: the carry charged in calculate_cash_flows follows the configured
\* carried_interest_rate: each year's Carry Due is max(0, Gross Profit *
\* carried_interest_rate), and with carried_interest_rate = 0.0 the carry of
\* calculate_lp_returns is 0, every year's Carry Due is 0 and every year's
\* Net to LPs equals that year's Total Distribution.
C1_CarryFollowsConfiguredRate ==
    Returned(cash_flows) =>
        /\ \A i \in 1..Len(cash_flows) :
              cash_flows[i].Carry_Due =
                  Max(0, Mul(cash_flows[i].Gross_Profit, model.carried_interest_rate))
        /\ model.carried_interest_rate = 0 =>
              /\ lp_returns.carry = 0
              /\ \A i \in 1..Len(cash_flows) :
                    /\ cash_flows[i].Carry_Due = 0
                    /\ cash_flows[i].Net_to_LPs = cash_flows[i].Total_Distribution

\* the derived fields agree with the inputs they are derived from
DerivedConsistent(m) ==
    /\ m.total_management_fees
         = Mul(m.fund_size, m.management_fee_rate) * m.fund_life
    /\ m.net_investable
         = m.fund_size - m.total_management_fees - m.operating_expenses
    /\ m.total_deployable = m.net_investable + m.recycling_amount

\* the statements of run_model at which a calculation is about to run
CalculationPoints == {"portfolio", "lp", "cash_flows", "sensitivity", "visualize"}

\* C2: wherever a calculation operation runs, after construction and any
\* parameter overrides, total_management_fees = fund_size *
\* management_fee_rate * fund_life, net_investable = fund_size -
\* total_management_fees - operating_expenses and total_deployable =
\* net_investable + recycling_amount hold of the current inputs.
C2_DerivedFreshAtCalculations ==
    pc \in CalculationPoints => DerivedConsistent(model)

\* a calculation is about to run on inputs the request overrode
C2_Witness ==
    /\ pc \in CalculationPoints
    /\ model.fund_life # 10
    /\ model.management_fee_rate # 20
    /\ model.fund_size # 50000
    /\ model.total_management_fees # NewModel(model.fund_size).total_management_fees

\* calculate_cash_flows has run in this request: calculate_lp_returns, the
\* first to call it, has been executed
CashFlowsCalled ==
    \/ pc \in {"cash_flows", "sensitivity", "visualize", "respond"}
    \/ pc = "done" /\ response.status = 200
    \/ RaisedIn("calculate_cash_flows")

\* C3: for every configuration with fund_life >= 4, calculate_cash_flows
\* completes and returns exactly fund_life rows with Year 1..fund_life in
\* increasing order.
C3_ScheduleForEveryFundLife ==
    (Configured /\ CashFlowsCalled /\ model.fund_life >= 4) =>
        /\ ~RaisedIn("calculate_cash_flows")
        /\ Returned(cash_flows) =>
              /\ Len(cash_flows) = model.fund_life
              /\ \A i \in 1..Len(cash_flows) : cash_flows[i].Year = i

\* a category whose MOIC is computed by division
ComputedMoicCategories == {"seed", "shared_safe", "series_a"}

InvalidConfiguration(m) ==
    \/ m.fund_size <= 0
    \/ m.fund_life < 4
    \/ \E c \in ComputedMoicCategories : m.investment_params[c].allocation = 0

\* C4: a run on an invalid configuration (fund_size <= 0, fund_life < 4, or
\* allocation = 0 for a category whose MOIC is computed) ends in a rejection
\* carrying a reason and returns no portfolio, cash-flow, LP-return or
\* sensitivity output.
C4_InvalidConfigurationRejected ==
    (pc = "done" /\ InvalidConfiguration(model)) =>
        /\ response.status = 400
        /\ "error" \in DOMAIN response
        /\ DOMAIN response \cap {"portfolio_returns", "cash_flows", "lp_returns",
                                 "sensitivity_analysis"} = {}

\* C5: whenever calculate_lp_returns returns, its net_irr is never nan, and
\* when the LP cash-flow series it built has no sign change its net_irr is
\* exactly the default 0.185.
C5_IrrFallsBackToDefault ==
    Returned(lp_returns) =>
        /\ lp_returns.net_irr # NaN
        /\ ~HasSignChange(LPCashFlows(calculate_cash_flows(model).value)) =>
              lp_returns.net_irr = [kind |-> "rate", value |-> 185]

\* C6: in the table of calculate_portfolio_returns the five category rows
\* come in the order seed, shared_safe, series_a, incubation, recycled, the
\* "Total Portfolio" row is last, its Invested is the sum of the five
\* Invested values and its Gross Return is the sum of the five Gross Returns
\* plus exactly 5.0.
C6_TotalRowLastAndSummed ==
    Returned(portfolio_returns) =>
        /\ [i \in 1..Len(portfolio_returns) |-> portfolio_returns[i].Category]
             = <<"Seed", "Shared SAFE", "Series A", "Incubation", "Recycled",
                 "Total Portfolio">>
        /\ portfolio_returns[6].Invested
             = SumSeq([i \in 1..5 |-> portfolio_returns[i].Invested])
        /\ portfolio_returns[6].Gross_Return
             = SumSeq([i \in 1..5 |-> portfolio_returns[i].Gross_Return]) + 5000

\* a table was returned for allocations the request overrode
C6_Witness ==
    /\ Returned(portfolio_returns)
    /\ data.investment_params # <<>>
    /\ model.investment_params # DefaultInvestmentParams
    /\ portfolio_returns[6].Gross_Return # 254100

NonNegativeAllocations(m) ==
    \A c \in Categories : m.investment_params[c].allocation >= 0

\* C7: with fund_size > 0 and non-negative allocations, in every year t of
\* the schedule Cumulative Distribution(t) >= Cumulative Distribution(t-1),
\* Carry Due(t) >= Carry Due(t-1) >= 0 and DPI(t) = Cumulative
\* Distribution(t) / fund_size, Cumulative Distribution(t) being the sum of
\* Total Distribution over years 1..t.
C7_ScheduleMonotone ==
    (Returned(cash_flows) /\ model.fund_size > 0 /\ NonNegativeAllocations(model)) =>
        \A t \in 1..Len(cash_flows) :
            /\ cash_flows[t].Cumulative_Distribution
                 = SumSeq([i \in 1..t |-> cash_flows[i].Total_Distribution])
            /\ cash_flows[t].DPI.den # 0
            /\ cash_flows[t].DPI
                 = Quot(cash_flows[t].Cumulative_Distribution, model.fund_size)
            /\ cash_flows[t].Carry_Due >= 0
            /\ t > 1 =>
                  /\ cash_flows[t].Cumulative_Distribution
                       >= cash_flows[t - 1].Cumulative_Distribution
                  /\ cash_flows[t].Carry_Due >= cash_flows[t - 1].Carry_Due

\* a schedule whose carry starts at nothing and ends positive
C7_Witness ==
    /\ Returned(cash_flows)
    /\ model.fund_size > 0
    /\ NonNegativeAllocations(model)
    /\ model.investment_params.shared_safe.allocation # 12000
    /\ cash_flows[1].Carry_Due = 0
    /\ cash_flows[Len(cash_flows)].Carry_Due > 0

\* C9: sensitivity_analysis returns three rows, downside, base, upside, with
\* Gross Returns 0.7, 1.0 and 1.3 times the gross_returns of
\* calculate_lp_returns, each with Gross MOIC = Gross Returns / fund_size;
\* the base row's Gross MOIC and Net MOIC are calculate_lp_returns's
\* gross_moic and net_moic.
C9_SensitivityScenarios ==
    Returned(sensitivity) =>
        /\ [i \in 1..Len(sensitivity) |-> sensitivity[i].Scenario]
             = <<"Downside (-30%)", "Base Case", "Upside (+30%)">>
        /\ 10 * sensitivity[1].Gross_Returns = 7 * lp_returns.gross_returns
        /\ sensitivity[2].Gross_Returns = lp_returns.gross_returns
        /\ 10 * sensitivity[3].Gross_Returns = 13 * lp_returns.gross_returns
        /\ \A i \in 1..3 :
              sensitivity[i].Gross_MOIC
                  = NumpyDiv(sensitivity[i].Gross_Returns, model.fund_size)
        /\ sensitivity[2].Gross_MOIC = lp_returns.gross_moic
        /\ sensitivity[2].Net_MOIC = lp_returns.net_moic

\* the three scenarios of a fund that returns a profit, carry charged
C9_Witness ==
    /\ Returned(sensitivity)
    /\ model.fund_size > 0
    /\ model.carried_interest_rate > 0
    /\ lp_returns.carry > 0
    /\ sensitivity[1].Gross_Returns < sensitivity[2].Gross_Returns
    /\ sensitivity[2].Gross_Returns < sensitivity[3].Gross_Returns

\* the override the request holds for category c, if any
OverrideOf(c) ==
    IF data.investment_params # <<>> /\ c \in DOMAIN data.investment_params[1]
    THEN data.investment_params[1][c]
    ELSE <<>>

\* C10: the update of investment_params merges field by field: the
\* sub-fields an override names for a known category hold the override's
\* values afterwards, every other sub-field of that category and every
\* sub-field of every other category keeps its value, and an override that
\* names no known category changes nothing.
C10_OverridesMergedFieldByField ==
    [][pc = "update_params" =>
        /\ DOMAIN model'.investment_params = Categories
        /\ \A c \in Categories :
              /\ DOMAIN model'.investment_params[c]
                   = DOMAIN model.investment_params[c] \cup DOMAIN OverrideOf(c)
              /\ \A f \in DOMAIN OverrideOf(c) :
                    model'.investment_params[c][f] = OverrideOf(c)[f]
              /\ \A f \in DOMAIN model.investment_params[c] \ DOMAIN OverrideOf(c) :
                    model'.investment_params[c][f] = model.investment_params[c][f]
        /\ (data.investment_params # <<>>
            /\ DOMAIN data.investment_params[1] \cap Categories = {}) =>
              model' = model
        /\ \A k \in DOMAIN model \ {"investment_params"} : model'[k] = model[k]]_vars

\* an override of one sub-field of seed has been merged: that sub-field
\* changed and the others are the defaults still
C10_Witness ==
    /\ pc = "recalculate"
    /\ DOMAIN OverrideOf("seed") = {"allocation"}
    /\ model.investment_params.seed.allocation = OverrideOf("seed").allocation
    /\ model.investment_params.seed.allocation # DefaultInvestmentParams.seed.allocation
    /\ model.investment_params.seed.count = DefaultInvestmentParams.seed.count

\* C8: the calculation operations leave every field of the model unchanged
\* whatever the order they are called in, so an output once returned
\* (calculate_lp_returns's in particular) is returned identical by every
\* later call on the same portfolio table, whichever calculations ran in
\* between.
C8_CalculationsArePure ==
    [][/\ model' = model
       /\ Returned(portfolio_returns) => portfolio_returns' = portfolio_returns
       /\ Returned(lp_returns) => lp_returns' = lp_returns
       /\ Returned(cash_flows) => cash_flows' = cash_flows
       /\ Returned(sensitivity) => sensitivity' = sensitivity]_vars

\* calculate_lp_returns has returned twice, other calculations called too
C8_Witness ==
    /\ calls["calculate_lp_returns"] >= 2
    /\ calls["calculate_cash_flows"] + calls["sensitivity_analysis"] >= 1
    /\ Returned(lp_returns)
    /\ model = ConfiguredModel(data)

\* a <= b for quotients with positive denominators
FracLeq(a, b) == a.num * b.den <= b.num * a.den

\* C11: calculate_lp_returns applies one whole-fund carry with no hurdle:
\* with G the total row's gross return and fund_size > 0, gross_profit is
\* G - fund_size, carry is gross_profit * carried_interest_rate on a profit
\* and 0 otherwise, never negative, net_profit_to_lps is gross_profit -
\* carry, total_lp_distribution is fund_size + net_profit_to_lps, net_moic is
\* total_lp_distribution / fund_size, and for a rate in [0, 1] net_moic is
\* at most gross_moic, equal to it whenever G <= fund_size.
C11_WholeFundCarry ==
    (Returned(lp_returns) /\ Returned(portfolio_returns) /\ model.fund_size > 0) =>
        LET G == TotalGrossReturn(portfolio_returns)
            r == lp_returns
        IN  /\ r.gross_returns = G
            /\ r.gross_profit = G - model.fund_size
            /\ r.gross_profit > 0 =>
                  Scale * r.carry = r.gross_profit * model.carried_interest_rate
            /\ r.gross_profit <= 0 => r.carry = 0
            /\ model.carried_interest_rate >= 0 => r.carry >= 0
            /\ r.net_profit_to_lps = r.gross_profit - r.carry
            /\ r.total_lp_distribution = model.fund_size + r.net_profit_to_lps
            /\ r.net_moic = Quot(r.total_lp_distribution, model.fund_size)
            /\ r.gross_moic = Quot(G, model.fund_size)
            /\ model.carried_interest_rate \in 0..Scale =>
                  /\ FracLeq(r.net_moic, r.gross_moic)
                  /\ G <= model.fund_size => r.net_moic = r.gross_moic

\* a fund that lost money: no carry, net and gross multiple the same
C11_Witness ==
    /\ Returned(lp_returns)
    /\ Returned(portfolio_returns)
    /\ model.fund_size > 0
    /\ model.carried_interest_rate > 0
    /\ lp_returns.gross_profit < 0
    /\ lp_returns.carry = 0
    /\ lp_returns.net_moic = lp_returns.gross_moic

\* C12: in the schedule, Net to LPs of year t is Total Distribution(t) less
\* the carry accrued that year, Carry Due(t) - Carry Due(t-1) with Carry Due
\* before year 1 taken as 0; so the IRR series of calculate_lp_returns, the
\* fund_life capital calls followed by one terminal inflow, the sum of all
\* years' Net to LPs, ends with the final Cumulative Distribution less the
\* final Carry Due.
C12_NetToLPsIncrementalCarry ==
    Returned(cash_flows) =>
        LET n == Len(cash_flows)
            series == LPCashFlows(cash_flows)
        IN  /\ n = model.fund_life
            /\ \A t \in 1..n :
                  cash_flows[t].Net_to_LPs
                    = cash_flows[t].Total_Distribution
                      - (cash_flows[t].Carry_Due
                         - (IF t = 1 THEN 0 ELSE cash_flows[t - 1].Carry_Due))
            /\ Len(series) = n + 1
            /\ \A t \in 1..n : series[t] = cash_flows[t].Capital_Calls
            /\ series[n + 1] = SumSeq([t \in 1..n |-> cash_flows[t].Net_to_LPs])
            /\ series[n + 1] = cash_flows[n].Cumulative_Distribution
                               - cash_flows[n].Carry_Due
            /\ (Returned(lp_returns) /\ lp_returns.net_irr # NaN) =>
                  lp_returns.net_irr.values = series

\* a solved series whose terminal inflow is short of the distributions by
\* the carry, accrued over more than one year
C12_Witness ==
    /\ Returned(cash_flows)
    /\ Returned(lp_returns)
    /\ lp_returns.net_irr # NaN
    /\ \E t \in 2..Len(cash_flows) :
          /\ cash_flows[t - 1].Carry_Due > 0
          /\ cash_flows[t].Carry_Due > cash_flows[t - 1].Carry_Due
          /\ cash_flows[t].Net_to_LPs < cash_flows[t].Total_Distribution
    /\ lp_returns.net_irr.values[Len(cash_flows) + 1]
         < cash_flows[Len(cash_flows)].Cumulative_Distribution

\* r, held as the expression (of ^ (1 / root) - 1) * times, is the rate that
\* compounds to moic over life years: (1 + r) ^ life = moic.  A multiple of
\* exactly 1 gives the rate 0 whatever the root and the factor.
IsCagr(r, moic, life) ==
    /\ r.kind = "root"
    /\ r.of = moic
    /\ \/ moic.num = moic.den
       \/ r.root = life /\ r.times = 1

\* C13: in every scenario of sensitivity_analysis the estimated net IRR is
\* the compound annual growth rate of the scenario's net MOIC over the
\* configured fund_life: the value r reported satisfies
\* (1 + r) ^ fund_life = net_moic, as a fraction, the units of
\* calculate_lp_returns's net_irr, the horizon being the current fund_life
\* and not a fixed number of years.
C13_IrrEstimateIsCagrOverFundLife ==
    (Returned(sensitivity) /\ model.fund_size > 0) =>
        \A i \in 1..Len(sensitivity) :
            sensitivity[i].Net_MOIC.num >= 0 =>
                IsCagr(sensitivity[i].Net_IRR_pct, sensitivity[i].Net_MOIC,
                       model.fund_life)

\* the first outcome that raised, or done when none did
FirstRaised(outcomes, done) ==
    IF \E i \in 1..Len(outcomes) : outcomes[i].raised
    THEN LET i == CHOOSE i \in 1..Len(outcomes) :
                    /\ outcomes[i].raised
                    /\ \A j \in 1..(i - 1) : ~outcomes[j].raised
         IN  [status |-> 400, error |-> outcomes[i].exc]
    ELSE done

\* what run_model answers from the outcomes of the calls it makes in turn
ResponseFrom(m, pr, lp, cf, sens, figure) ==
    FirstRaised(<<pr, lp, cf, sens, figure>>,
                IF pr.raised \/ lp.raised \/ cf.raised \/ sens.raised \/ figure.raised
                THEN None
                ELSE ResponseData(m, pr.value, lp.value, cf.value, sens.value,
                                  savefig(Drawn(NoFigures, figure), 1)))

SensitivityOf(m, portfolio) ==
    IF portfolio.raised THEN portfolio ELSE sensitivity_analysis(m, portfolio.value)

\* the response to a request served with no other request running
ResponseAlone(m) ==
    ResponseFrom(m, calculate_portfolio_returns(m),
                 LPReturnsOf(m, calculate_portfolio_returns(m)),
                 calculate_cash_flows(m),
                 SensitivityOf(m, calculate_portfolio_returns(m)),
                 create_visualizations(m))

\* C14: concurrent runs do not interfere: whatever the interleaving of two
\* run_model requests, each with its own model object, every part of each
\* response, the overview, the portfolio, LP, cash-flow and sensitivity
\* outputs and the chart drawn through pyplot's process-wide state, is the
\* one the request gets when run alone, depending on its own parameters
\* only.
C14_ConcurrentRunsIndependent ==
    \A t \in Threads :
        pc[t] = "done" => response[t] = ResponseAlone(ConfiguredModel(data[t]))

=============================================================================
